---- MODULE Spec2Model ----
(***************************************************************************)
(* HR Talent Lens (src/app.py): filter extraction, scoring and ranking.   *)
(*                                                                         *)
(* Python values are tagged records (PyNone, PyInt, PyStr, PyList,        *)
(* PyDict) so that truthiness and dict.get can be modelled as Python      *)
(* evaluates them.  Text is a TLA+ string, lower-cased and searched       *)
(* character by character.  A score is held in tenths of a point so that  *)
(* billable_utilization_pct / 10 stays exact.                             *)
(***************************************************************************)
EXTENDS Integers, Sequences, FiniteSets, TLC

VARIABLES
    pc,             \* position of the script / of the call under study
    api_key,        \* whether OPENAI_API_KEY is set in the environment
    uploaded_file,  \* whether a CSV has been uploaded
    df,             \* the roster read from the CSV (sequence of rows)
    user_prompt,    \* the text area's content
    top_n_default,  \* the slider's value
    service,        \* what the remote completion call does on this request
    filters,        \* the filter record (a Python value)
    top_n,          \* the resolved result count (a Python value)
    scored,         \* the value score_employees returned
    scored_df,      \* scored, re-indexed 1..n
    shown,          \* the rows handed to st.dataframe
    error           \* the exception that ended the run, "" when none

vars == <<pc, api_key, uploaded_file, df, user_prompt, top_n_default, service,
          filters, top_n, scored, scored_df, shown, error>>

---------------------------------------------------------------------------
(* Bounds of the model *)

MaxRows == 2
MaxWords == 2

---------------------------------------------------------------------------
(* Python values *)

PyNone == [t |-> "NoneType"]
PyInt(n) == [t |-> "int", v |-> n]
PyStr(s) == [t |-> "str", v |-> s]
PyList(q) == [t |-> "list", v |-> q]
PyDict(d) == [t |-> "dict", v |-> d]

\* bool(x): None, 0, "", [] and {} are false
Truthy(x) ==
    CASE x.t = "NoneType" -> FALSE
      [] x.t = "int" -> x.v # 0
      [] x.t = "str" -> x.v # ""
      [] x.t = "list" -> x.v # <<>>
      [] x.t = "dict" -> DOMAIN x.v # {}

\* d.get(key) on a dict: None when the key is absent
Get(d, key) == IF key \in DOMAIN d.v THEN d.v[key] ELSE PyNone

---------------------------------------------------------------------------
(* Text *)

LowerChar(c) ==
    CASE c = "A" -> "a" [] c = "B" -> "b" [] c = "C" -> "c" [] c = "D" -> "d"
      [] c = "E" -> "e" [] c = "F" -> "f" [] c = "G" -> "g" [] c = "H" -> "h"
      [] c = "I" -> "i" [] c = "J" -> "j" [] c = "K" -> "k" [] c = "L" -> "l"
      [] c = "M" -> "m" [] c = "N" -> "n" [] c = "O" -> "o" [] c = "P" -> "p"
      [] c = "Q" -> "q" [] c = "R" -> "r" [] c = "S" -> "s" [] c = "T" -> "t"
      [] c = "U" -> "u" [] c = "V" -> "v" [] c = "W" -> "w" [] c = "X" -> "x"
      [] c = "Y" -> "y" [] c = "Z" -> "z" [] OTHER -> c

RECURSIVE Lower(_)
\* str.lower()
Lower(s) ==
    IF Len(s) = 0 THEN ""
    ELSE LowerChar(SubSeq(s, 1, 1)) \o Lower(SubSeq(s, 2, Len(s)))

\* needle in text (substring test)
Contains(needle, text) ==
    \E i \in 0..(Len(text) - Len(needle)) :
        SubSeq(text, i + 1, i + Len(needle)) = needle

RECURSIVE Join(_, _)
\* sep.join(items)
Join(sep, items) ==
    IF Len(items) = 0 THEN ""
    ELSE IF Len(items) = 1 THEN items[1]
    ELSE items[1] \o sep \o Join(sep, Tail(items))

---------------------------------------------------------------------------
(* parse_request_local *)

\* a plausible slip: a key left out of the literal
EmptyParsedNoBudget ==
    [role |-> PyList(<<>>), skills |-> PyList(<<>>), location |-> PyNone,
     availability_before |-> PyNone,
     past_projects |-> PyList(<<>>), top_n |-> PyNone]

\* the dict literal the parser starts from
EmptyParsed ==
    [role |-> PyList(<<>>), skills |-> PyList(<<>>), location |-> PyNone,
     budget |-> PyNone, availability_before |-> PyNone,
     past_projects |-> PyList(<<>>), top_n |-> PyNone]

\* if "devops" in text: parsed["role"].append("DevOps Engineer")
RoleRule(p, text) ==
    IF Contains("devops", text)
    THEN [p EXCEPT !.role = PyList(Append(@.v, "DevOps Engineer"))]
    ELSE p

\* if "iot" in text: parsed["past_projects"].append("IoT")
ProjectRule(p, text) ==
    IF Contains("iot", text)
    THEN [p EXCEPT !.past_projects = PyList(Append(@.v, "IoT"))]
    ELSE p

\* if "calgary" in text: parsed["location"] = "Calgary"
LocationRule(p, text) ==
    IF Contains("calgary", text) THEN [p EXCEPT !.location = PyStr("Calgary")]
    ELSE p

\* a plausible slip: two independent ifs, so that the later phrase overrides
TopNRuleCumulative(p, text) ==
    LET q == IF Contains("top 5", text) THEN [p EXCEPT !.top_n = PyInt(5)] ELSE p
    IN IF Contains("top 10", text) THEN [q EXCEPT !.top_n = PyInt(10)] ELSE q

\* if "top 5" in text: ... elif "top 10" in text: ...
TopNRule(p, text) ==
    IF Contains("top 5", text) THEN [p EXCEPT !.top_n = PyInt(5)]
    ELSE IF Contains("top 10", text) THEN [p EXCEPT !.top_n = PyInt(10)]
    ELSE p

parse_request_local(prompt) ==
    LET text == Lower(prompt)
    IN PyDict(TopNRule(LocationRule(ProjectRule(RoleRule(EmptyParsed, text), text),
                                    text), text))

---------------------------------------------------------------------------
(* Dates: pd.to_datetime on the strings the roster and the filter carry *)

IsDigit(c) == c \in {"0", "1", "2", "3", "4", "5", "6", "7", "8", "9"}

Digit(c) ==
    CASE c = "0" -> 0 [] c = "1" -> 1 [] c = "2" -> 2 [] c = "3" -> 3
      [] c = "4" -> 4 [] c = "5" -> 5 [] c = "6" -> 6 [] c = "7" -> 7
      [] c = "8" -> 8 [] c = "9" -> 9

RECURSIVE Number(_)
\* the value of a string of digits
Number(s) ==
    IF Len(s) = 0 THEN 0
    ELSE 10 * Number(SubSeq(s, 1, Len(s) - 1)) + Digit(SubSeq(s, Len(s), Len(s)))

AllDigits(s) == \A i \in 1..Len(s) : IsDigit(SubSeq(s, i, i))

IsLeap(y) == (y % 4 = 0 /\ y % 100 # 0) \/ y % 400 = 0

DaysInMonth(y, m) ==
    IF m = 2 THEN (IF IsLeap(y) THEN 29 ELSE 28)
    ELSE IF m \in {4, 6, 9, 11} THEN 30 ELSE 31

\* the strings pandas reads as a missing date
NaTStrings == {"", "NaN", "nan", "NaT"}

\* a plausible slip: text that is no date is read as the earliest date instead
\* of raising
ToDatetimeEpoch(s) ==
    IF s \in NaTStrings THEN [kind |-> "NaT"]
    ELSE IF Len(s) = 10 /\ AllDigits(SubSeq(s, 1, 4))
         THEN [kind |-> "ts", y |-> Number(SubSeq(s, 1, 4)),
               m |-> Number(SubSeq(s, 6, 7)), d |-> Number(SubSeq(s, 9, 10))]
         ELSE [kind |-> "ts", y |-> 1970, m |-> 1, d |-> 1]

\* pd.to_datetime(s) for s a missing-value string, a YYYY-MM-DD date, or text
\* that is no date: NaT, a timestamp, or an exception
ToDatetime(s) ==
    IF s \in NaTStrings THEN [kind |-> "NaT"]
    ELSE IF /\ Len(s) = 10
            /\ SubSeq(s, 5, 5) = "-" /\ SubSeq(s, 8, 8) = "-"
            /\ AllDigits(SubSeq(s, 1, 4))
            /\ AllDigits(SubSeq(s, 6, 7))
            /\ AllDigits(SubSeq(s, 9, 10))
            /\ Number(SubSeq(s, 6, 7)) \in 1..12
            /\ Number(SubSeq(s, 9, 10)) \in
                   1..DaysInMonth(Number(SubSeq(s, 1, 4)), Number(SubSeq(s, 6, 7)))
         THEN [kind |-> "ts", y |-> Number(SubSeq(s, 1, 4)),
               m |-> Number(SubSeq(s, 6, 7)), d |-> Number(SubSeq(s, 9, 10))]
         ELSE [kind |-> "raise"]

\* a <= b on timestamps; any comparison with NaT is False
DateLeq(a, b) ==
    /\ a.kind = "ts" /\ b.kind = "ts"
    /\ \/ a.y < b.y
       \/ a.y = b.y /\ a.m < b.m
       \/ a.y = b.y /\ a.m = b.m /\ a.d <= b.d

Pad2(n) == IF n < 10 THEN "0" \o ToString(n) ELSE ToString(n)

\* str(ts.date())
DateStr(ts) == ToString(ts.y) \o "-" \o Pad2(ts.m) \o "-" \o Pad2(ts.d)

---------------------------------------------------------------------------
(* score_employees *)

\* x in container, for a list (membership) or a str (substring)
In(x, container) ==
    IF container.t = "list" THEN \E i \in 1..Len(container.v) : container.v[i] = x
    ELSE Contains(x, container.v)

\* a plausible slip: the keyword is searched without lower-casing either side
MatchedCaseSensitive(keywords, text) ==
    LET Hit(k) == Contains(k, text)
    IN SelectSeq(keywords.v, Hit)

\* [k for k in keywords if k.lower() in text.lower()]
Matched(keywords, text) ==
    LET Hit(k) == Contains(Lower(k), Lower(text))
    IN SelectSeq(keywords.v, Hit)

\* the loop body of score_employees up to results.append: the score (in
\* tenths) and the reasons of one row
ScoreRow(row, f) ==
    LET role_hit == Truthy(Get(f, "role")) /\ In(row.role, Get(f, "role"))
        s1 == IF role_hit THEN 10 * 20 ELSE 0
        r1 == IF role_hit
              THEN <<"Role '" \o row.role \o "' fits project requirement">>
              ELSE <<>>
        matched_skills == IF Truthy(Get(f, "skills"))
                          THEN Matched(Get(f, "skills"), row.skills) ELSE <<>>
        s2 == s1 + 10 * 15 * Len(matched_skills)
        r2 == IF matched_skills # <<>>
              THEN Append(r1, "Employee has required skills: "
                                  \o Join(", ", matched_skills))
              ELSE r1
        loc_hit == /\ Truthy(Get(f, "location"))
                   /\ Contains(Lower(Get(f, "location").v), Lower(row.location))
        s3 == IF loc_hit THEN s2 + 10 * 10 ELSE s2
        r3 == IF loc_hit
              THEN Append(r2, "Located in/near " \o Get(f, "location").v)
              ELSE r2
        matched_projects == IF Truthy(Get(f, "past_projects"))
                            THEN Matched(Get(f, "past_projects"), row.past_projects)
                            ELSE <<>>
        s4 == s3 + 10 * 10 * Len(matched_projects)
        r4 == IF matched_projects # <<>>
              THEN Append(r3, "Experience in similar projects: "
                                  \o Join(", ", matched_projects))
              ELSE r3
        s5 == s4 + 10 * (row.performance_score * 2) + row.billable_utilization_pct
        r5 == Append(r4, "High performance score ("
                            \o ToString(row.performance_score)
                            \o ") and utilization "
                            \o ToString(row.billable_utilization_pct) \o "%")
        project_date == ToDatetime(Get(f, "availability_before").v)
        available_date == ToDatetime(row.availability_start_date)
        avail_hit == /\ Truthy(Get(f, "availability_before"))
                     /\ project_date.kind # "raise"
                     /\ available_date.kind # "raise"
                     /\ DateLeq(available_date, project_date)
        s6 == IF avail_hit THEN s5 + 10 * 10 ELSE s5
        r6 == IF avail_hit
              THEN Append(r5, "Available before required date "
                                  \o DateStr(project_date))
              ELSE r5
    IN [score |-> s6,
        reasons |-> IF r6 # <<>> THEN Join(" | ", r6)
                    ELSE "General fit based on performance and utilization"]

\* the dict appended to results for the row at position i (0-based: the label
\* pd.DataFrame gives it)
Result(i, row, f) ==
    [index |-> i,
     employee_id |-> row.employee_id,
     name |-> row.name,
     role |-> row.role,
     annual_cost |-> row.annual_cost,
     location |-> row.location,
     performance_score |-> row.performance_score,
     experience_years |-> row.experience_years,
     availability_start_date |-> row.availability_start_date,
     stake_tier |-> row.stake_tier,
     score |-> ScoreRow(row, f).score,
     reasons |-> ScoreRow(row, f).reasons]

\* a plausible slip: ascending=False left out
BeforeAscending(a, b) == a.score <= b.score

\* whether position a may come before position b in the sorted frame
Before(a, b) == a.score >= b.score

\* DataFrame.sort_values(by="score", ascending=False) with the default
\* kind="quicksort", which is not stable: every arrangement of the frame's
\* rows in which the scores do not increase
SortValues(results) ==
    LET n == Len(results)
        Orders == {p \in [1..n -> 1..n] : \A i, j \in 1..n : i # j => p[i] # p[j]}
    IN {[k \in 1..n |-> results[p[k]]] : p \in
            {q \in Orders : \A k \in 1..(n - 1) :
                Before(results[q[k]], results[q[k + 1]])}}

\* a plausible slip: the frame returned as built, without sort_values
score_employees_unsorted(rows, f) ==
    {[raised |-> FALSE, exc |-> "",
      value |-> [i \in 1..Len(rows) |-> Result(i - 1, rows[i], f)]]}

\* what a call of score_employees can do: return a frame, or raise (a frame
\* built from no rows has no "score" column to sort by)
score_employees(rows, f) ==
    LET results == [i \in 1..Len(rows) |-> Result(i - 1, rows[i], f)]
    IN IF results = <<>>
       THEN {[raised |-> TRUE, exc |-> "KeyError", value |-> <<>>]}
       ELSE {[raised |-> FALSE, exc |-> "", value |-> s] : s \in SortValues(results)}

---------------------------------------------------------------------------
(* Rosters and filter records the scoring is run on *)

Employees ==
    << [employee_id |-> 1, name |-> "A", role |-> "DevOps Engineer",
        skills |-> "aws,linux", location |-> "Calgary",
        past_projects |-> "IoT gateway", performance_score |-> 8,
        billable_utilization_pct |-> 80, annual_cost |-> 120,
        experience_years |-> 9, availability_start_date |-> "2024-01-15",
        stake_tier |-> "Gold"],
       [employee_id |-> 2, name |-> "B", role |-> "Data Scientist",
        skills |-> "python", location |-> "Toronto",
        past_projects |-> "Retail web", performance_score |-> 5,
        billable_utilization_pct |-> 55, annual_cost |-> 90,
        experience_years |-> 4, availability_start_date |-> "2025-03-01",
        stake_tier |-> "Silver"],
       [employee_id |-> 3, name |-> "C", role |-> "DevOps Engineer",
        skills |-> "AWS", location |-> "calgary NW",
        past_projects |-> "Billing", performance_score |-> 2,
        billable_utilization_pct |-> 20, annual_cost |-> 70,
        experience_years |-> 2, availability_start_date |-> "TBD",
        stake_tier |-> "Bronze"],
       [employee_id |-> 4, name |-> "D", role |-> "Data Scientist",
        skills |-> "Python, Linux", location |-> "Toronto",
        past_projects |-> "IOT lab", performance_score |-> 5,
        billable_utilization_pct |-> 55, annual_cost |-> 95,
        experience_years |-> 5, availability_start_date |-> "NaN",
        stake_tier |-> "Silver"],
       [employee_id |-> 5, name |-> "E", role |-> "Intern",
        skills |-> "", location |-> "Remote",
        past_projects |-> "", performance_score |-> 0,
        billable_utilization_pct |-> 0, annual_cost |-> 30,
        experience_years |-> 0, availability_start_date |-> "2024-06-30",
        stake_tier |-> "Bronze"] >>

Rosters ==
    UNION {{[i \in 1..n |-> Employees[c[i]]] : c \in [1..n -> 1..Len(Employees)]} :
              n \in 0..MaxRows}

ScoreFilters ==
    {PyDict([role |-> PyList(r), skills |-> PyList(s), location |-> l,
             budget |-> PyNone, availability_before |-> a,
             past_projects |-> PyList(p), top_n |-> PyNone]) :
        r \in {<<>>, <<"DevOps Engineer">>},
        s \in {<<>>, <<"aws">>, <<"aws", "linux">>, <<"Linux", "Python">>},
        l \in {PyNone, PyStr("calgary")},
        a \in {PyNone, PyStr("2024-06-30"), PyStr("soon")},
        p \in {<<>>, <<"iot">>}}
    \cup {PyDict([skills |-> PyList(<<"AWS">>)]),
          PyDict([role |-> PyList(<<"Intern">>), location |-> PyStr("")])}

InitScore ==
    /\ pc = "call_score"
    /\ df \in Rosters
    /\ filters \in ScoreFilters
    /\ api_key = TRUE /\ uploaded_file = TRUE
    /\ user_prompt = "" /\ top_n_default = 10
    /\ service = [kind |-> "raise", exc |-> "APIConnectionError"]
    /\ top_n = PyNone
    /\ scored = <<>> /\ scored_df = <<>> /\ shown = <<>> /\ error = ""

ScoreEmployees ==
    /\ pc = "call_score"
    /\ \E out \in score_employees(df, filters) :
          /\ scored' = out.value
          /\ error' = out.exc
          /\ pc' = IF out.raised THEN "raised_score" ELSE "returned_score"
    /\ UNCHANGED <<api_key, uploaded_file, df, user_prompt, top_n_default, service,
                   filters, top_n, scored_df, shown>>

NextScore == ScoreEmployees

SpecScore == InitScore /\ [][NextScore]_vars

---------------------------------------------------------------------------
(* parse_request_with_openai *)

\* json.loads(content): the value the text denotes; text that is not JSON
\* raises
JsonLoads(content) ==
    IF content.json THEN [raised |-> FALSE, value |-> content.value]
    ELSE [raised |-> TRUE, value |-> PyNone]

\* the try block returns what json.loads gives; the except branch returns None
\* for an exception of the call or of the decoding
parse_request_with_openai(prompt, svc) ==
    IF svc.kind = "raise" THEN PyNone
    ELSE IF JsonLoads(svc.content).raised THEN PyNone
    ELSE JsonLoads(svc.content).value

---------------------------------------------------------------------------
(* The script *)

\* a plausible slip: the two records merged key by key, the remote one winning
OrMerged(a, b) ==
    IF a.t = "dict" /\ b.t = "dict"
    THEN PyDict([k \in DOMAIN a.v \cup DOMAIN b.v |->
                    IF k \in DOMAIN a.v THEN a.v[k] ELSE b.v[k]])
    ELSE IF Truthy(a) THEN a ELSE b

\* a or b
Or(a, b) == IF Truthy(a) THEN a ELSE b

\* a plausible slip: the slider's value wins over the filter's
ResolveTopNSlider(f, default) ==
    IF Truthy(PyInt(default)) THEN PyInt(default) ELSE Get(f, "top_n")

\* filters.get("top_n") if filters.get("top_n") else top_n_default
ResolveTopN(f, default) ==
    IF Truthy(Get(f, "top_n")) THEN Get(f, "top_n") ELSE PyInt(default)

\* .reset_index(drop=True), then index + 1
ResetIndex(frame) == [k \in 1..Len(frame) |-> [frame[k] EXCEPT !.index = k]]

Min(a, b) == IF a <= b THEN a ELSE b
Max(a, b) == IF a >= b THEN a ELSE b

\* DataFrame.head(n): the first n rows; for negative n, all but the last -n
DfHead(frame, n) ==
    IF n >= 0 THEN SubSeq(frame, 1, Min(n, Len(frame)))
    ELSE SubSeq(frame, 1, Max(Len(frame) + n, 0))

\* what the completion call does on a request: an exception of the client, or
\* a message whose text is or is not JSON
Services ==
    {[kind |-> "raise", exc |-> e] : e \in {"APIConnectionError", "APITimeoutError"}}
    \cup {[kind |-> "content", content |-> [json |-> FALSE, value |-> PyNone]]}
    \cup {[kind |-> "content", content |-> [json |-> TRUE, value |-> v]] : v \in
            {PyNone,
             PyDict(<<>>),
             PyList(<<>>),
             PyList(<<"DevOps Engineer">>),
             PyDict([role |-> PyList(<<"DevOps Engineer">>),
                     skills |-> PyList(<<"aws">>), location |-> PyNone,
                     budget |-> PyNone, availability_before |-> PyNone,
                     past_projects |-> PyList(<<>>), top_n |-> PyInt(1)]),
             PyDict([role |-> PyList(<<>>),
                     skills |-> PyList(<<"aws", "linux">>),
                     location |-> PyStr("calgary"), budget |-> PyInt(100),
                     availability_before |-> PyStr("2024-06-30"),
                     past_projects |-> PyList(<<"iot">>), top_n |-> PyNone]),
             PyDict([role |-> PyList(<<>>), skills |-> PyList(<<"python">>),
                     location |-> PyNone, budget |-> PyNone,
                     availability_before |-> PyStr("soon"),
                     past_projects |-> PyList(<<>>), top_n |-> PyInt(0)]),
             PyDict([role |-> PyList(<<>>), skills |-> PyList(<<>>),
                     location |-> PyNone, budget |-> PyNone,
                     availability_before |-> PyNone,
                     past_projects |-> PyList(<<>>), top_n |-> PyInt(-1)]),
             PyDict([skills |-> PyList(<<"AWS">>)]),
             PyDict([role |-> PyList(<<"Data Scientist">>), top_n |-> PyInt(1)])}}

UserPrompts == {"", "Need DevOps engineers in Calgary, top 5", "IoT pilot, top 10"}

\* values of st.slider(..., 5, 50, 10)
SliderValues == {5, 10}

Init ==
    /\ pc = "start"
    /\ api_key \in BOOLEAN
    /\ uploaded_file \in BOOLEAN
    /\ df \in IF uploaded_file THEN Rosters ELSE {<<>>}
    /\ user_prompt \in UserPrompts
    /\ top_n_default \in SliderValues
    /\ service \in Services
    /\ filters = PyNone /\ top_n = PyNone
    /\ scored = <<>> /\ scored_df = <<>> /\ shown = <<>> /\ error = ""

\* client = OpenAI(api_key=os.getenv("OPENAI_API_KEY")), at module level and
\* outside any try: the client's constructor raises when it is given no key
\* and finds none in the environment
ConfigureClient ==
    /\ pc = "start"
    /\ IF api_key THEN pc' = "configured" /\ error' = ""
       ELSE pc' = "crashed" /\ error' = "OpenAIError"
    /\ UNCHANGED <<api_key, uploaded_file, df, user_prompt, top_n_default, service,
                   filters, top_n, scored, scored_df, shown>>

\* if uploaded_file: the roster is read and the widgets are drawn
ReadFile ==
    /\ pc = "configured"
    /\ uploaded_file
    /\ pc' = "ready"
    /\ UNCHANGED <<api_key, uploaded_file, df, user_prompt, top_n_default, service,
                   filters, top_n, scored, scored_df, shown, error>>

\* else: st.info("Please upload an employee CSV file to begin.")
NoFile ==
    /\ pc = "configured"
    /\ ~uploaded_file
    /\ pc' = "info"
    /\ UNCHANGED <<api_key, uploaded_file, df, user_prompt, top_n_default, service,
                   filters, top_n, scored, scored_df, shown, error>>

\* if st.button("Recommend"): the whole handler
Recommend ==
    /\ pc = "ready"
    /\ LET f == Or(parse_request_with_openai(user_prompt, service),
                   parse_request_local(user_prompt))
       IN /\ filters' = f
          /\ IF f.t # "dict"
             THEN \* filters.get on a list: AttributeError
                  /\ pc' = "crashed" /\ error' = "AttributeError"
                  /\ UNCHANGED <<top_n, scored, scored_df, shown>>
             ELSE /\ top_n' = ResolveTopN(f, top_n_default)
                  /\ \E out \in score_employees(df, f) :
                        IF out.raised
                        THEN /\ pc' = "crashed" /\ error' = out.exc
                             /\ UNCHANGED <<scored, scored_df, shown>>
                        ELSE /\ scored' = out.value
                             /\ scored_df' = ResetIndex(out.value)
                             /\ shown' = DfHead(ResetIndex(out.value),
                                                ResolveTopN(f, top_n_default).v)
                             /\ pc' = "done" /\ error' = ""
    /\ UNCHANGED <<api_key, uploaded_file, df, user_prompt, top_n_default, service>>

Next == ConfigureClient \/ ReadFile \/ NoFile \/ Recommend

Spec == Init /\ [][Next]_vars

---------------------------------------------------------------------------
(* The local parser on its own: prompts built from a few words *)

Words == {"DevOps", "devops", "IoT", "Calgary", "top 5", "Top 10", "top 50",
          "top", "5", "engineers"}

Prompts == {Join(" ", w) : w \in UNION {[1..n -> Words] : n \in 0..MaxWords}}

InitLocal ==
    /\ pc = "call_local"
    /\ user_prompt \in Prompts
    /\ api_key = TRUE /\ uploaded_file = FALSE /\ df = <<>>
    /\ top_n_default = 10
    /\ service = [kind |-> "raise", exc |-> "APIConnectionError"]
    /\ filters = PyNone /\ top_n = PyNone
    /\ scored = <<>> /\ scored_df = <<>> /\ shown = <<>> /\ error = ""

ParseLocal ==
    /\ pc = "call_local"
    /\ filters' = parse_request_local(user_prompt)
    /\ pc' = "returned_local"
    /\ UNCHANGED <<api_key, uploaded_file, df, user_prompt, top_n_default, service,
                   top_n, scored, scored_df, shown, error>>

NextLocal == ParseLocal

SpecLocal == InitLocal /\ [][NextLocal]_vars

---------------------------------------------------------------------------
(* Properties *)

Card(S) == Cardinality(S)

\* the keywords of a list field that occur in a text, by position in the list
HitPositions(field, text) ==
    IF field.t # "list" THEN {}
    ELSE {i \in 1..Len(field.v) : Contains(Lower(field.v[i]), Lower(text))}

\* texts of the model that are no date
NotADate == {"TBD", "soon"}

\* the rule table, each rule on its own
RoleBonus(row, f) ==
    IF Get(f, "role").t = "list"
       /\ row.role \in {Get(f, "role").v[i] : i \in 1..Len(Get(f, "role").v)}
    THEN 200 ELSE 0
SkillBonus(row, f) == 150 * Card(HitPositions(Get(f, "skills"), row.skills))
LocationBonus(row, f) ==
    IF Get(f, "location").t = "str" /\ Get(f, "location").v # ""
       /\ Contains(Lower(Get(f, "location").v), Lower(row.location))
    THEN 100 ELSE 0
ProjectBonus(row, f) ==
    100 * Card(HitPositions(Get(f, "past_projects"), row.past_projects))
BaseBonus(row) == 20 * row.performance_score + row.billable_utilization_pct
AvailabilityBonus(row, f) ==
    IF /\ Get(f, "availability_before").t = "str"
       /\ Get(f, "availability_before").v \notin NotADate \cup NaTStrings
       /\ row.availability_start_date \notin NotADate \cup NaTStrings
       /\ DateLeq(ToDatetime(row.availability_start_date),
                  ToDatetime(Get(f, "availability_before").v))
    THEN 100 ELSE 0

WithField(f, key, value) ==
    PyDict([k \in DOMAIN f.v \cup {key} |-> IF k = key THEN value ELSE f.v[k]])

\* the roster row a returned record was built from
RowOf(rec) == df[rec.index + 1]

NonIncreasing(frame) ==
    \A k \in 1..(Len(frame) - 1) : frame[k].score >= frame[k + 1].score

\* C1: every returned record's score is the sum of the rule contributions
\* (role 20, 15 per matched skill keyword, location 10, 10 per matched project
\* keyword, 2 * performance + utilization / 10, availability 10), scores in
\* tenths; the skill bonus is 15 times the number of matched keywords, and
\* setting or unsetting only location moves a row's score by exactly 10 when
\* its location matches and not at all otherwise.
Thm_C1 ==
    pc = "returned_score" =>
        \A k \in 1..Len(scored) :
            LET row == RowOf(scored[k])
            IN /\ scored[k].score =
                      RoleBonus(row, filters) + SkillBonus(row, filters)
                      + LocationBonus(row, filters) + ProjectBonus(row, filters)
                      + BaseBonus(row) + AvailabilityBonus(row, filters)
               /\ scored[k].score
                      - ScoreRow(row, WithField(filters, "skills", PyList(<<>>))).score
                  = 150 * Card(HitPositions(Get(filters, "skills"), row.skills))
               /\ ScoreRow(row, WithField(filters, "location", PyStr("calgary"))).score
                      - ScoreRow(row, WithField(filters, "location", PyNone)).score
                  = IF Contains("calgary", Lower(row.location)) THEN 100 ELSE 0

\* a roster scored with every rule firing for employee 1 (two skill keywords
\* matched) next to employee 3 (one matched, no availability bonus)
Wit_C1 ==
    /\ pc = "returned_score"
    /\ \E j, k \in 1..Len(scored) :
          /\ scored[j].employee_id = 1 /\ scored[j].score = 1040
          /\ scored[k].employee_id = 3 /\ scored[k].score = 510

\* C2 as stated: the i-th returned record is the scored form of the i-th
\* roster row.
Orig_C2 ==
    pc = "returned_score" =>
        /\ Len(scored) = Len(df)
        /\ \A i \in 1..Len(scored) :
              /\ scored[i].index = i - 1
              /\ scored[i].employee_id = df[i].employee_id

\* C2, amended: whenever score_employees returns, it returns one record per
\* roster row, each the scored form of its row, arranged by non-increasing
\* score: the ordering by score happens inside the scoring step.
Thm_C2 ==
    pc = "returned_score" =>
        /\ Len(scored) = Len(df)
        /\ {scored[k].index : k \in 1..Len(scored)} = 0..(Len(df) - 1)
        /\ \A k \in 1..Len(scored) :
              /\ scored[k].employee_id = RowOf(scored[k]).employee_id
              /\ scored[k].score = ScoreRow(RowOf(scored[k]), filters).score
              /\ scored[k].reasons = ScoreRow(RowOf(scored[k]), filters).reasons
        /\ NonIncreasing(scored)

\* a returned frame whose first record comes from the second roster row
Wit_C2 ==
    /\ pc = "returned_score"
    /\ Len(scored) = 2
    /\ scored[1].index = 1
    /\ scored[1].score > scored[2].score

\* C3 as stated: the ranked table is the stable descending sort, so rows of
\* equal score keep their roster order.
Orig_C3 ==
    pc = "done" =>
        /\ NonIncreasing(scored_df)
        /\ \A i, j \in 1..Len(scored_df) :
              (i < j /\ scored_df[i].score = scored_df[j].score)
                  => scored[i].index < scored[j].index

\* C3, amended: the ranked table is a descending sort of the scored roster:
\* scores do not increase along it and it holds every roster row exactly
\* once, numbered 1..n; rows of equal score come in either order.
Thm_C3 ==
    pc = "done" =>
        /\ NonIncreasing(scored_df)
        /\ Len(scored_df) = Len(df)
        /\ {scored[k].index : k \in 1..Len(scored)} = 0..(Len(df) - 1)
        /\ \A k \in 1..Len(scored_df) :
              /\ scored_df[k].index = k
              /\ scored_df[k].employee_id = RowOf(scored[k]).employee_id
              /\ scored_df[k].score = scored[k].score

\* a ranked table of two rows with distinct scores, the higher one second in
\* the roster
Wit_C3 ==
    /\ pc = "done"
    /\ Len(scored_df) = 2
    /\ scored_df[1].score > scored_df[2].score
    /\ scored[1].index = 1

\* C4 as stated: top_n is the filter's whenever that is present and not
\* null, and the slider's value otherwise; the table shown is the first
\* top_n entries of the ranked table, at most top_n rows (a count being 0 or
\* more).
Orig_C4 ==
    pc = "done" =>
        /\ top_n = IF Get(filters, "top_n").t # "NoneType"
                   THEN Get(filters, "top_n") ELSE PyInt(top_n_default)
        /\ top_n.v >= 0 =>
              /\ Len(shown) <= top_n.v
              /\ shown = SubSeq(scored_df, 1, Len(shown))

\* C4, amended: top_n is the filter's whenever that is present, not null and
\* not zero, and the slider's value otherwise; for a positive count the table
\* shown is the first top_n entries of the ranked table.
Thm_C4 ==
    pc = "done" =>
        /\ top_n = IF Get(filters, "top_n").t = "int" /\ Get(filters, "top_n").v # 0
                   THEN Get(filters, "top_n") ELSE PyInt(top_n_default)
        /\ top_n.v > 0 =>
              /\ Len(shown) = Min(top_n.v, Len(scored_df))
              /\ Len(shown) <= top_n.v
              /\ shown = SubSeq(scored_df, 1, Len(shown))

\* a filter count of 1 against a slider at 10 cuts a ranked table of two rows
\* to its first
Wit_C4 ==
    /\ pc = "done"
    /\ Get(filters, "top_n") = PyInt(1) /\ top_n_default = 10
    /\ Len(scored_df) = 2
    /\ shown = <<scored_df[1]>>

\* the remote parse failed: no credential, an exception of the call, a
\* response that is not JSON, or JSON that is no record
RemoteFailed ==
    \/ ~api_key
    \/ service.kind = "raise"
    \/ service.kind = "content" /\ ~service.content.json
    \/ service.kind = "content" /\ service.content.json
          /\ service.content.value.t # "dict"

\* C5 as stated: after any failure of the remote parse no error of the remote
\* tier ends the run, and the filter record is the local parse of the prompt.
Orig_C5 ==
    RemoteFailed =>
        /\ error \notin {"OpenAIError", "AttributeError"}
        /\ pc = "done" => filters = parse_request_local(user_prompt)

FieldNames ==
    {"role", "skills", "location", "budget", "availability_before",
     "past_projects", "top_n"}

\* every field present, collections as lists, scalars null or a value
AllFieldsPresent(f) ==
    /\ f.t = "dict"
    /\ DOMAIN f.v = FieldNames
    /\ \A k \in {"role", "skills", "past_projects"} : f.v[k].t = "list"
    /\ \A k \in {"location", "availability_before"} : f.v[k].t \in {"NoneType", "str"}
    /\ \A k \in {"budget", "top_n"} : f.v[k].t \in {"NoneType", "int"}

\* the record line 136 chose has been assigned
FiltersChosen == pc \in {"done", "crashed"} /\ error # "OpenAIError"

\* C6 as stated: whichever tier produced it, the filter record has every
\* field.
Orig_C6 == pc = "done" => AllFieldsPresent(filters)

\* C6, amended: the record of the local tier always has every field, with
\* collections defaulting to empty and scalars to null; the record of the
\* remote tier is the service's JSON as parsed and may lack fields.
Thm_C6 ==
    (FiltersChosen /\ ~Truthy(parse_request_with_openai(user_prompt, service))) =>
        /\ AllFieldsPresent(filters)
        /\ filters.v.skills = PyList(<<>>)
        /\ filters.v.budget = PyNone
        /\ filters.v.availability_before = PyNone
        /\ user_prompt = "" =>
              /\ filters.v.role = PyList(<<>>)
              /\ filters.v.past_projects = PyList(<<>>)
              /\ filters.v.location = PyNone
              /\ filters.v.top_n = PyNone

\* the remote call raised and the run was completed on the local record
Wit_C6 ==
    /\ pc = "done"
    /\ service.kind = "raise"
    /\ user_prompt # ""
    /\ Get(filters, "top_n") = PyInt(5)

\* C7 as stated: the record is the remote one whenever the remote parse gave
\* a non-null record, and the local one otherwise.
Orig_C7 ==
    pc = "done" =>
        filters = IF parse_request_with_openai(user_prompt, service).t = "dict"
                  THEN parse_request_with_openai(user_prompt, service)
                  ELSE parse_request_local(user_prompt)

\* C7, amended: the record is the remote one whenever the remote parse gave a
\* value Python counts as true (not null, not empty, not zero), and the local
\* one otherwise; it is that record whole.
Thm_C7 ==
    FiltersChosen =>
        filters = IF /\ service.kind = "content" /\ service.content.json
                     /\ service.content.value
                            \notin {PyNone, PyDict(<<>>), PyList(<<>>), PyInt(0), PyStr("")}
                  THEN service.content.value
                  ELSE parse_request_local(user_prompt)

\* a remote record with one field was used as it came, although the local
\* parse of the prompt finds a role
Wit_C7 ==
    /\ pc = "done"
    /\ DOMAIN filters.v = {"skills"}
    /\ Get(parse_request_local(user_prompt), "role") = PyList(<<"DevOps Engineer">>)

\* C8 as stated: for every roster score_employees returns as many records as
\* the roster has rows, each with a score of at least 0.
Orig_C8 ==
    pc \in {"returned_score", "raised_score"} =>
        /\ pc = "returned_score"
        /\ Len(scored) = Len(df)
        /\ \A k \in 1..Len(scored) : scored[k].score >= 0

\* C9: a row whose availability date is no date, or any row when the filter's
\* availability_before is no date, gets the score and the reasons it gets
\* with availability_before unset, and the other rows are scored all the same.
Thm_C9 ==
    pc = "returned_score" =>
        /\ Len(scored) = Len(df)
        /\ \A k \in 1..Len(scored) :
              LET row == RowOf(scored[k])
                  unset == WithField(filters, "availability_before", PyNone)
              IN (\/ row.availability_start_date \in NotADate
                  \/ /\ Get(filters, "availability_before").t = "str"
                     /\ Get(filters, "availability_before").v \in NotADate)
                 => /\ scored[k].score = ScoreRow(row, unset).score
                    /\ scored[k].reasons = ScoreRow(row, unset).reasons
                    /\ scored[k].score =
                          RoleBonus(row, filters) + SkillBonus(row, filters)
                          + LocationBonus(row, filters) + ProjectBonus(row, filters)
                          + BaseBonus(row)

\* employee 3, whose date is "TBD", scored beside employee 5, who earns the
\* availability bonus of the same filter
Wit_C9 ==
    /\ pc = "returned_score"
    /\ Get(filters, "availability_before") = PyStr("2024-06-30")
    /\ \E j, k \in 1..Len(scored) :
          /\ scored[j].employee_id = 3
          /\ scored[k].employee_id = 5
          /\ scored[k].score = BaseBonus(RowOf(scored[k])) + 100

\* C10: the local parser sets top_n to 5 when the lower-cased prompt holds
\* "top 5", else to 10 when it holds "top 10", else leaves it null; "devops"
\* adds "DevOps Engineer" to role whatever the count phrase; "devops" with
\* "top 5" gives role = ["DevOps Engineer"] and top_n = 5; the empty prompt
\* gives the all-default record.
Thm_C10 ==
    pc = "returned_local" =>
        LET text == Lower(user_prompt)
            five == \E i \in 1..(Len(text) - 4) : SubSeq(text, i, i + 4) = "top 5"
            ten == \E i \in 1..(Len(text) - 5) : SubSeq(text, i, i + 5) = "top 10"
            devops == \E i \in 1..(Len(text) - 5) : SubSeq(text, i, i + 5) = "devops"
        IN /\ filters.t = "dict"
           /\ five => filters.v.top_n = PyInt(5)
           /\ (ten /\ ~five) => filters.v.top_n = PyInt(10)
           /\ (~five /\ ~ten) => filters.v.top_n = PyNone
           /\ filters.v.role = IF devops THEN PyList(<<"DevOps Engineer">>)
                               ELSE PyList(<<>>)
           /\ user_prompt = "" =>
                 filters = PyDict([role |-> PyList(<<>>), skills |-> PyList(<<>>),
                                   location |-> PyNone, budget |-> PyNone,
                                   availability_before |-> PyNone,
                                   past_projects |-> PyList(<<>>),
                                   top_n |-> PyNone])

\* a prompt with "DevOps" and "top 5" parsed to the role and the count
Wit_C10 ==
    /\ pc = "returned_local"
    /\ user_prompt = "DevOps top 5"
    /\ filters.v.role = PyList(<<"DevOps Engineer">>)
    /\ filters.v.top_n = PyInt(5)

====
